---- MODULE Spec2Model ----
(***************************************************************************)
(* Model of the spine instancing layer: the SpineInstancePipe registry of  *)
(* instance groups (src/src/lib/SpineInstancer.ts) and the SpineInstancer  *)
(* facade on top of it.  Objects are InstancedSpine objects; the animation *)
(* runtime is reduced to track 0 of each object's AnimationState.          *)
(* Time is counted in ticks of 16 ms (the 0.016 s of the source).          *)
(***************************************************************************)
EXTENDS Integers, Sequences, FiniteSets, TLC

\* ---------------------------------------------------------------- bounds
NumObjs == 3            \* objects the scene may ever create
MaxSteps == 4           \* operations per behaviour
MaxDelta == 2           \* largest deltaTime (in ticks) passed to update
MaxCount == 2           \* largest count passed to createInstancedGroup

\* ------------------------------------------------------------- constants
Objs == 1 .. NumObjs
GroupIds == {"", "a", "b"}          \* groupId: string (the empty string is a string)
Anims == {"idle", "run"}            \* animation names of the skeleton data
Null == "<null>"                    \* null / undefined of a string-valued field
NoObj == 0                          \* null of an object-valued field
SyncDelta == 1                      \* primary.state.update(0.016) in the facade's syncGroup
SceneGroupId == "benchmark-group"   \* the group id of BenchmarkScene.generateInstancedSpines
DefaultInstanceCount == 40          \* config.instanceCount of a new BenchmarkScene
AvailableAnims == <<"idle", "run">> \* skeleton.data.animations, in order
NoCall == [result |-> FALSE, delegated |-> 0, original |-> 0]   \* no handler has run
NoTrack == [animation |-> Null, trackTime |-> 0, loop |-> FALSE]   \* state.tracks[0] undefined

VARIABLES
    instancePipe,        \* SpineInstancer.instancePipe: TRUE = interceptor present, FALSE = null
    instanceGroups,      \* SpineInstancePipe.instanceGroups: the Map, as a sequence in insertion order
    instanceGroup,       \* spine.instanceGroup of every object
    isPrimaryInstance,   \* spine.isPrimaryInstance of every object
    life,                \* "none" (not created), "live", "destroyed"
    tracks,              \* spine.state.tracks[0] of every object
    listeners,           \* number of 'destroyed' subscriptions the pipe holds on every object
    raised,              \* TRUE iff the last operation threw
    lastOp,              \* the last operation and its arguments
    steps,               \* operations performed so far
    instancer,           \* BenchmarkScene.instancer: TRUE = a SpineInstancer, FALSE = null
    spineData,           \* BenchmarkScene.spineData has been set
    spines,              \* BenchmarkScene.spines: the scene's objects in creation order
    config,              \* BenchmarkScene.config
    spineAttachmentsDirty,   \* spine.spineAttachmentsDirty of every object
    spineTexturesDirty,      \* spine.spineTexturesDirty of every object
    gpuSpineData,        \* SpinePipe.gpuSpineData[spine.uid]: "data", or "none" (undefined / null)
    instructionSet,      \* the objects the host passed to addRenderable since its last rebuild
    renderCall           \* what the last call of a pipeline handler or render hook did

sceneVars == <<instancer, spineData, spines, config>>

hostVars == <<spineAttachmentsDirty, spineTexturesDirty, instructionSet, renderCall>>

vars == <<instancePipe, instanceGroups, instanceGroup, isPrimaryInstance, life,
          tracks, listeners, raised, lastOp, steps, instancer, spineData, spines, config,
          spineAttachmentsDirty, spineTexturesDirty, gpuSpineData, instructionSet,
          renderCall>>

\* ------------------------------------------------------- helper operators
\* JavaScript truthiness of a string-or-null value: null, undefined and "" are falsy.
Truthy(s) == s # Null /\ s # ""

\* Set<InstancedSpine> keeps insertion order; a set is a sequence without duplicates.
InSeq(s, x) == \E i \in 1 .. Len(s) : s[i] = x
SetAdd(s, x) == IF InSeq(s, x) THEN s ELSE Append(s, x)
SetDelete(s, x) == SelectSeq(s, LAMBDA y : y # x)
Elems(s) == {s[i] : i \in 1 .. Len(s)}

\* Map.get(id): index of the group with this id, 0 when absent.
MapIndex(gs, id) == IF \E i \in 1 .. Len(gs) : gs[i].id = id
                    THEN CHOOSE i \in 1 .. Len(gs) : gs[i].id = id
                    ELSE 0
MapHas(gs, id) == MapIndex(gs, id) # 0
MapGet(gs, id) == gs[MapIndex(gs, id)]
MapDelete(gs, id) == SelectSeq(gs, LAMBDA g : g.id # id)

\* The registry part of the state, threaded through the pipe's methods.
Registry == [groups |-> instanceGroups, instanceGroup |-> instanceGroup,
             isPrimaryInstance |-> isPrimaryInstance, listeners |-> listeners]

\* A removal that promotes but keeps the group when its last member leaves.
removeKeepingEmptyGroup(R, spine, gid) ==
    LET i == MapIndex(R.groups, gid)
        rest == SetDelete(R.groups[i].instances, spine)
        promote == R.isPrimaryInstance[spine] /\ Len(rest) > 0
    IN [R EXCEPT !.groups[i].instances = rest,
                 !.groups[i].primaryInstance = IF promote THEN Head(rest) ELSE @,
                 !.isPrimaryInstance = IF promote THEN [@ EXCEPT ![Head(rest)] = TRUE] ELSE @]

\* Removal of spine from group gid with promotion of the first remaining member
\* (group.instances.values().next().value) and deletion of the emptied group.
RemoveFromGroupOf(R, spine, gid) ==
    LET i == MapIndex(R.groups, gid)
        group == R.groups[i]
        rest == SetDelete(group.instances, spine)
        promote == R.isPrimaryInstance[spine] /\ Len(rest) > 0
        group2 == [group EXCEPT !.instances = rest,
                                !.primaryInstance = IF promote THEN Head(rest) ELSE @]
    IN [R EXCEPT !.groups = IF Len(rest) = 0 THEN MapDelete(R.groups, gid)
                            ELSE [R.groups EXCEPT ![i] = group2],
                 !.isPrimaryInstance = IF promote THEN [@ EXCEPT ![Head(rest)] = TRUE] ELSE @]

\* SpineInstancePipe.unregisterInstance
unregisterInstance(R, spine) ==
    IF ~Truthy(R.instanceGroup[spine]) THEN R
    ELSE IF ~MapHas(R.groups, R.instanceGroup[spine]) THEN R
    ELSE LET R1 == RemoveFromGroupOf(R, spine, R.instanceGroup[spine])
         IN [R1 EXCEPT !.instanceGroup[spine] = Null,
                       !.isPrimaryInstance[spine] = FALSE]

\* SpineInstancePipe.destroyRenderable
destroyRenderable(R, spine) ==
    LET R0 == [R EXCEPT !.listeners[spine] = 0]
    IN IF Truthy(R0.instanceGroup[spine]) /\ MapHas(R0.groups, R0.instanceGroup[spine])
       THEN RemoveFromGroupOf(R0, spine, R0.instanceGroup[spine])
       ELSE R0

\* SpineInstancePipe.registerInstance
registerInstance(R, spine, groupId) ==
    LET R1 == IF Truthy(R.instanceGroup[spine]) /\ R.instanceGroup[spine] # groupId
              THEN unregisterInstance(R, spine) ELSE R
        gs == IF MapHas(R1.groups, groupId) THEN R1.groups
              ELSE Append(R1.groups, [id |-> groupId, instances |-> <<>>,
                                      primaryInstance |-> NoObj,
                                      animation |-> Null, time |-> 0])
        i == MapIndex(gs, groupId)
        first == gs[i].primaryInstance = NoObj
        group == [gs[i] EXCEPT !.instances = SetAdd(@, spine),
                               !.primaryInstance = IF first THEN spine ELSE @]
    IN [R1 EXCEPT !.groups = [gs EXCEPT ![i] = group],
                  !.instanceGroup[spine] = groupId,
                  !.isPrimaryInstance[spine] = first,
                  !.listeners[spine] = @ + 1]

\* ------------------------------------------------------ animation runtime
\* A setAnimation that ignores its loop argument and always loops.
setAnimationLooping(name, loop) == [animation |-> name, trackTime |-> 0, loop |-> TRUE]

\* AnimationState.setAnimation(0, name, loop): a new track entry at trackTime 0.
setAnimation(name, loop) == [animation |-> name, trackTime |-> 0, loop |-> loop]

\* AnimationState.update(delta): the current track entry, if any, advances by delta.
stateUpdate(track, delta) ==
    IF track = NoTrack THEN NoTrack ELSE [track EXCEPT !.trackTime = @ + delta]

\* spine.state is null once the object is destroyed: any use of it throws.
StateIsNull(o) == life[o] = "destroyed"

\* The animation part of the state, threaded through the methods that sync.
AnimState == [groups |-> instanceGroups, tracks |-> tracks, raised |-> FALSE]

\* A sync loop that adds the group's time to each secondary's own track time.
RECURSIVE pipeSyncMembersDrift(_, _, _, _, _, _)
pipeSyncMembersDrift(S, insts, primary, animation, time, loop) ==
    IF insts = <<>> \/ S.raised THEN S
    ELSE LET instance == Head(insts)
         IN IF instance = primary \/ ~Truthy(animation)
            THEN pipeSyncMembersDrift(S, Tail(insts), primary, animation, time, loop)
            ELSE IF StateIsNull(instance) THEN [S EXCEPT !.raised = TRUE]
            ELSE pipeSyncMembersDrift(
                    [S EXCEPT !.tracks[instance] =
                        [animation |-> animation,
                         trackTime |-> S.tracks[instance].trackTime + time,
                         loop |-> loop]],
                    Tail(insts), primary, animation, time, loop)

\* Loop of SpineInstancePipe.syncGroup over group.instances (in insertion order).
RECURSIVE pipeSyncMembers(_, _, _, _, _, _)
pipeSyncMembers(S, insts, primary, animation, time, loop) ==
    IF insts = <<>> \/ S.raised THEN S
    ELSE LET instance == Head(insts)
         IN IF instance = primary \/ ~Truthy(animation)
            THEN pipeSyncMembers(S, Tail(insts), primary, animation, time, loop)
            ELSE IF StateIsNull(instance) THEN [S EXCEPT !.raised = TRUE]
            ELSE pipeSyncMembers(
                    [S EXCEPT !.tracks[instance] =
                        [setAnimation(animation, loop) EXCEPT !.trackTime = time]],
                    Tail(insts), primary, animation, time, loop)

\* SpineInstancePipe.syncGroup
pipeSyncGroup(S, groupId) ==
    IF S.raised \/ ~MapHas(S.groups, groupId) THEN S
    ELSE LET i == MapIndex(S.groups, groupId)
             group == S.groups[i]
             primary == group.primaryInstance
         IN IF primary = NoObj THEN S
            ELSE IF StateIsNull(primary) THEN [S EXCEPT !.raised = TRUE]
            ELSE LET track == S.tracks[primary]
                 IN IF track = NoTrack THEN S
                    ELSE pipeSyncMembers(
                            [S EXCEPT !.groups[i].animation = track.animation,
                                      !.groups[i].time = track.trackTime],
                            group.instances, primary, track.animation,
                            track.trackTime, track.loop)

\* Loop of SpineInstancer.syncGroup over group.instances.
RECURSIVE facadeSyncMembers(_, _, _, _, _, _)
facadeSyncMembers(S, insts, primary, animation, time, loop) ==
    IF insts = <<>> \/ S.raised THEN S
    ELSE LET instance == Head(insts)
             cur == S.tracks[instance]
         IN IF instance = primary
            THEN facadeSyncMembers(S, Tail(insts), primary, animation, time, loop)
            ELSE IF StateIsNull(instance) THEN [S EXCEPT !.raised = TRUE]
            ELSE IF ~Truthy(animation)
            THEN facadeSyncMembers(S, Tail(insts), primary, animation, time, loop)
            ELSE facadeSyncMembers(
                    [S EXCEPT !.tracks[instance] =
                        IF cur # NoTrack /\ cur.animation = animation
                        THEN [cur EXCEPT !.trackTime = time]
                        ELSE [setAnimation(animation, loop) EXCEPT !.trackTime = time]],
                    Tail(insts), primary, animation, time, loop)

\* SpineInstancer.syncGroup
facadeSyncGroup(S, groupId) ==
    IF ~instancePipe THEN [S EXCEPT !.raised = TRUE]
    ELSE IF ~MapHas(S.groups, groupId) THEN S
    ELSE LET i == MapIndex(S.groups, groupId)
             group == S.groups[i]
             primary == group.primaryInstance
         IN IF primary = NoObj THEN S
            ELSE IF StateIsNull(primary) THEN [S EXCEPT !.raised = TRUE]
            ELSE LET track == stateUpdate(S.tracks[primary], SyncDelta)
                     S1 == [S EXCEPT !.tracks[primary] = track]
                 IN IF track = NoTrack THEN S1
                    ELSE facadeSyncMembers(
                            [S1 EXCEPT !.groups[i].animation = track.animation,
                                       !.groups[i].time = track.trackTime],
                            group.instances, primary, track.animation,
                            track.trackTime, track.loop)

\* Loop of SpineInstancer.update over the snapshot returned by getAllGroups().
RECURSIVE updateGroups(_, _, _)
updateGroups(S, infos, deltaTime) ==
    IF infos = <<>> \/ S.raised THEN S
    ELSE LET group == Head(infos)
             primary == group.primaryInstance
         IN IF primary # NoObj /\ StateIsNull(primary) THEN [S EXCEPT !.raised = TRUE]
            ELSE LET S1 == IF primary # NoObj
                           THEN [S EXCEPT !.tracks[primary] = stateUpdate(@, deltaTime)]
                           ELSE S
                 IN updateGroups(pipeSyncGroup(S1, group.id), Tail(infos), deltaTime)

\* An update that also drops the groups that record no animation.
updateDroppingIdle(S, deltaTime) ==
    LET S1 == IF ~instancePipe THEN S ELSE updateGroups(S, S.groups, deltaTime)
    IN [S1 EXCEPT !.groups = SelectSeq(@, LAMBDA g : g.animation # Null)]

\* SpineInstancer.update
facadeUpdate(S, deltaTime) ==
    IF ~instancePipe THEN S ELSE updateGroups(S, S.groups, deltaTime)

\* Loop of SpineInstancer.setGroupAnimation over group.instances.
RECURSIVE setAnimationMembers(_, _, _, _, _)
setAnimationMembers(S, insts, primary, animationName, loop) ==
    IF insts = <<>> \/ S.raised THEN S
    ELSE LET instance == Head(insts)
         IN IF instance = primary
            THEN setAnimationMembers(S, Tail(insts), primary, animationName, loop)
            ELSE IF StateIsNull(instance) THEN [S EXCEPT !.raised = TRUE]
            ELSE setAnimationMembers(
                    [S EXCEPT !.tracks[instance] = setAnimation(animationName, loop)],
                    Tail(insts), primary, animationName, loop)

\* SpineInstancer.setGroupAnimation
facadeSetGroupAnimation(S, groupId, animationName, loop) ==
    IF ~instancePipe THEN [S EXCEPT !.raised = TRUE]
    ELSE IF ~MapHas(S.groups, groupId) THEN S
    ELSE LET i == MapIndex(S.groups, groupId)
             group == S.groups[i]
             primary == group.primaryInstance
         IN IF primary = NoObj THEN S
            ELSE IF StateIsNull(primary) THEN [S EXCEPT !.raised = TRUE]
            ELSE setAnimationMembers(
                    [S EXCEPT !.tracks[primary] = setAnimation(animationName, loop),
                              !.groups[i].animation = animationName,
                              !.groups[i].time = 0],
                    group.instances, primary, animationName, loop)

\* createInstancedSpine: the new instance starts with no group and not primary.
newInstance(R, instance) ==
    [R EXCEPT !.instanceGroup[instance] = Null, !.isPrimaryInstance[instance] = FALSE]

\* A createInstancedGroup loop that sets the animation on every instance it creates.
animateEvery(R1, T, instance, animation, loop) ==
    [reg |-> R1,
     tracks |-> IF Truthy(animation)
                THEN [T EXCEPT ![instance] = setAnimation(animation, loop)]
                ELSE T]

\* createInstancedGroup: setAnimation only on the instance the registry marked primary.
animatePrimary(R1, T, instance, animation, loop) ==
    [reg |-> R1,
     tracks |-> IF Truthy(animation) /\ R1.isPrimaryInstance[instance]
                THEN [T EXCEPT ![instance] = setAnimation(animation, loop)]
                ELSE T]

\* Loop of SpineInstancer.createInstancedGroup (interceptor present):
\* createInstancedSpine, addToGroup, setAnimation on the primary.  C = [reg, tracks].
RECURSIVE createInstances(_, _, _, _, _)
createInstances(C, fresh, groupId, animation, loop) ==
    IF fresh = <<>> THEN C
    ELSE createInstances(
            animatePrimary(registerInstance(newInstance(C.reg, Head(fresh)),
                                            Head(fresh), groupId),
                           C.tracks, Head(fresh), animation, loop),
            Tail(fresh), groupId, animation, loop)

\* End of SpineInstancer.createInstancedGroup: one syncGroup when an animation is given.
syncCreated(C, groupId, animation) ==
    [reg |-> C.reg,
     anim |-> IF Truthy(animation)
              THEN pipeSyncGroup([groups |-> C.reg.groups, tracks |-> C.tracks,
                                  raised |-> FALSE], groupId)
              ELSE [groups |-> C.reg.groups, tracks |-> C.tracks, raised |-> FALSE]]

\* The objects a creation of count objects brings to life: the next of the pool.
NumCreated == Cardinality({o \in Objs : life[o] # "none"})
Fresh(count) == [k \in 1 .. count |-> NumCreated + k]

\* ------------------------------------------------------------- reporting
NoInfo == [id |-> Null, instanceCount |-> 0, primaryInstance |-> NoObj,
           currentAnimation |-> Null, animationTime |-> 0]     \* a null InstanceGroupInfo

InfoOf(group) == [id |-> group.id, instanceCount |-> Len(group.instances),
                  primaryInstance |-> group.primaryInstance,
                  currentAnimation |-> group.animation, animationTime |-> group.time]

\* A getGroupInfo that answers an absent id with an empty record instead of null.
groupInfoOrEmpty(gs, groupId) ==
    IF ~MapHas(gs, groupId) THEN [NoInfo EXCEPT !.id = groupId]
    ELSE InfoOf(MapGet(gs, groupId))

\* SpineInstancePipe.getGroupInfo
pipeGetGroupInfo(gs, groupId) ==
    IF ~MapHas(gs, groupId) THEN NoInfo ELSE InfoOf(MapGet(gs, groupId))

\* SpineInstancePipe.getAllGroups
pipeGetAllGroups(gs) == [i \in 1 .. Len(gs) |-> InfoOf(gs[i])]

\* SpineInstancePipe.getTotalInstances
RECURSIVE pipeGetTotalInstances(_)
pipeGetTotalInstances(gs) ==
    IF gs = <<>> THEN 0 ELSE Len(Head(gs).instances) + pipeGetTotalInstances(Tail(gs))

\* SpineInstancer.getGroupInfo
getGroupInfo(groupId) ==
    IF ~instancePipe THEN NoInfo ELSE pipeGetGroupInfo(instanceGroups, groupId)

\* SpineInstancer.getTotalInstances
getTotalInstances == IF ~instancePipe THEN 0 ELSE pipeGetTotalInstances(instanceGroups)

avgDrawCallsPerSpine == 5

\* A JavaScript number that is a quotient, kept exact as a fraction in lowest terms.
RECURSIVE Gcd(_, _)
Gcd(a, b) == IF b = 0 THEN a ELSE Gcd(b, a % b)
Abs(x) == IF x < 0 THEN -x ELSE x
Quotient(n, d) == LET k == Gcd(Abs(n), d) IN [num |-> n \div k, den |-> d \div k]

\* A getDrawCallStats that counts one draw per instance instead of one per primary.
drawCallStatsPerInstance(gs) ==
    LET standardDrawCalls == pipeGetTotalInstances(gs) * avgDrawCallsPerSpine
    IN [instanced |-> standardDrawCalls, standard |-> standardDrawCalls,
        saved |-> 0, reduction |-> Quotient(0, 1)]

\* SpineInstancePipe.getDrawCallStats
pipeGetDrawCallStats(gs) ==
    LET primaryCount == Cardinality({i \in 1 .. Len(gs) : gs[i].primaryInstance # NoObj})
        instancedDrawCalls == primaryCount * avgDrawCallsPerSpine
        standardDrawCalls == pipeGetTotalInstances(gs) * avgDrawCallsPerSpine
        savedDrawCalls == standardDrawCalls - instancedDrawCalls
    IN [instanced |-> instancedDrawCalls, standard |-> standardDrawCalls,
        saved |-> savedDrawCalls,
        reduction |-> IF standardDrawCalls > 0
                      THEN Quotient(savedDrawCalls * 100, standardDrawCalls)
                      ELSE Quotient(0, 1)]

\* SpineInstancer.getDrawCallStats
getDrawCallStats ==
    IF ~instancePipe
    THEN [instanced |-> 0, standard |-> 0, saved |-> 0, reduction |-> Quotient(0, 1)]
    ELSE pipeGetDrawCallStats(instanceGroups)

\* ------------------------------------------------------------------ Init
Init ==
    /\ instancePipe \in BOOLEAN
    /\ instanceGroups = <<>>
    /\ instanceGroup = [o \in Objs |-> Null]
    /\ isPrimaryInstance = [o \in Objs |-> FALSE]
    /\ life = [o \in Objs |-> "none"]
    /\ tracks = [o \in Objs |-> NoTrack]
    /\ listeners = [o \in Objs |-> 0]
    /\ raised = FALSE
    /\ lastOp = [op |-> "init", g |-> Null, o |-> NoObj]
    /\ steps = 0
    /\ instancer \in {b \in BOOLEAN : instancePipe => b}
    /\ spineData = FALSE
    /\ spines = <<>>
    /\ config = [instanceCount |-> DefaultInstanceCount, renderMode |-> "instanced",
                 animation |-> "idle"]
    /\ spineAttachmentsDirty = [o \in Objs |-> TRUE]
    /\ spineTexturesDirty = [o \in Objs |-> TRUE]
    /\ gpuSpineData = [o \in Objs |-> "none"]
    /\ instructionSet = <<>>
    /\ renderCall = NoCall

SetRegistry(R) ==
    /\ instanceGroups' = R.groups
    /\ instanceGroup' = R.instanceGroup
    /\ isPrimaryInstance' = R.isPrimaryInstance
    /\ listeners' = R.listeners

\* One operation of the scene: it is counted and recorded as the last operation.
SceneStep(op) ==
    /\ steps < MaxSteps
    /\ steps' = steps + 1
    /\ lastOp' = [op |-> op, g |-> Null, o |-> NoObj]
    /\ UNCHANGED hostVars

\* One operation on the SpineInstancer or the pipe: the scene is not involved.
Step(op, g, o) ==
    /\ steps < MaxSteps
    /\ instancer
    /\ steps' = steps + 1
    /\ lastOp' = [op |-> op, g |-> g, o |-> o]
    /\ UNCHANGED sceneVars
    /\ UNCHANGED hostVars

\* SpineInstancer.createInstancedSpine: the next object of the pool comes to life.
CreateInstancedSpine(o) ==
    /\ Step("createInstancedSpine", Null, o)
    /\ life[o] = "none"
    /\ \A p \in Objs : p < o => life[p] # "none"
    /\ life' = [life EXCEPT ![o] = "live"]
    /\ instanceGroup' = [instanceGroup EXCEPT ![o] = Null]
    /\ isPrimaryInstance' = [isPrimaryInstance EXCEPT ![o] = FALSE]
    /\ raised' = FALSE
    /\ UNCHANGED <<instancePipe, instanceGroups, tracks, listeners, gpuSpineData>>

\* SpineInstancer.addToGroup
AddToGroup(o, g) ==
    /\ Step("addToGroup", g, o)
    /\ life[o] = "live"
    /\ IF instancePipe THEN SetRegistry(registerInstance(Registry, o, g))
       ELSE UNCHANGED <<instanceGroups, instanceGroup, isPrimaryInstance, listeners>>
    /\ raised' = FALSE
    /\ UNCHANGED <<instancePipe, life, tracks, gpuSpineData>>

\* SpineInstancer.removeFromGroup
RemoveFromGroup(o) ==
    /\ Step("removeFromGroup", Null, o)
    /\ life[o] # "none"
    /\ IF instancePipe THEN SetRegistry(unregisterInstance(Registry, o))
       ELSE UNCHANGED <<instanceGroups, instanceGroup, isPrimaryInstance, listeners>>
    /\ raised' = FALSE
    /\ UNCHANGED <<instancePipe, life, tracks, gpuSpineData>>

\* The 'destroyed' notification of o handled by SpineInstancePipe.destroyRenderable.
\* A destroyed Spine has no animation state left (state = null).
DestroyRenderable(o) ==
    /\ Step("destroyRenderable", Null, o)
    /\ instancePipe
    /\ life[o] # "none"
    /\ SetRegistry(destroyRenderable(Registry, o))
    /\ life' = [life EXCEPT ![o] = "destroyed"]
    /\ tracks' = [tracks EXCEPT ![o] = NoTrack]
    /\ gpuSpineData' = [gpuSpineData EXCEPT ![o] = "none"]
    /\ raised' = FALSE
    /\ UNCHANGED instancePipe

SetAnim(S) ==
    /\ instanceGroups' = S.groups
    /\ tracks' = S.tracks
    /\ raised' = S.raised

\* SpineInstancer.syncGroup
SyncGroup(g) ==
    /\ Step("syncGroup", g, NoObj)
    /\ SetAnim(facadeSyncGroup(AnimState, g))
    /\ UNCHANGED <<instancePipe, instanceGroup, isPrimaryInstance, life, listeners,
                   gpuSpineData>>

\* SpineInstancer.update
Update(deltaTime) ==
    /\ Step("update", Null, NoObj)
    /\ SetAnim(facadeUpdate(AnimState, deltaTime))
    /\ UNCHANGED <<instancePipe, instanceGroup, isPrimaryInstance, life, listeners,
                   gpuSpineData>>

\* SpineInstancer.setGroupAnimation
SetGroupAnimation(g, animationName, loop) ==
    /\ Step("setGroupAnimation", g, NoObj)
    /\ SetAnim(facadeSetGroupAnimation(AnimState, g, animationName, loop))
    /\ UNCHANGED <<instancePipe, instanceGroup, isPrimaryInstance, life, listeners,
                   gpuSpineData>>

\* Assignment of the result X = [reg, anim] of createInstancedGroup.
SetCreated(X) ==
    /\ instanceGroups' = X.anim.groups
    /\ tracks' = X.anim.tracks
    /\ raised' = X.anim.raised
    /\ instanceGroup' = X.reg.instanceGroup
    /\ isPrimaryInstance' = X.reg.isPrimaryInstance
    /\ listeners' = X.reg.listeners

\* SpineInstancer.createInstancedGroup
CreateInstancedGroup(count, g, animation, loop) ==
    /\ Step("createInstancedGroup", g, NoObj)
    /\ NumCreated + count <= NumObjs
    /\ life' = [o \in Objs |-> IF o \in Elems(Fresh(count)) THEN "live" ELSE life[o]]
    /\ IF ~instancePipe
       THEN /\ tracks' = [o \in Objs |->
                            IF o \in Elems(Fresh(count)) /\ Truthy(animation)
                            THEN setAnimation(animation, loop) ELSE tracks[o]]
            /\ raised' = FALSE
            /\ UNCHANGED <<instanceGroups, instanceGroup, isPrimaryInstance, listeners>>
       ELSE SetCreated(syncCreated(
                createInstances([reg |-> Registry, tracks |-> tracks],
                                Fresh(count), g, animation, loop),
                g, animation))
    /\ UNCHANGED <<instancePipe, gpuSpineData>>

\* The operations of the facade and the destroy notification, with group ids from ids.
NextOver(ids) ==
    \/ \E o \in Objs : CreateInstancedSpine(o)
    \/ \E o \in Objs, g \in ids : AddToGroup(o, g)
    \/ \E o \in Objs : RemoveFromGroup(o)
    \/ \E o \in Objs : DestroyRenderable(o)
    \/ \E g \in ids : SyncGroup(g)
    \/ \E d \in 1 .. MaxDelta : Update(d)
    \/ \E g \in ids, n \in Anims, l \in BOOLEAN : SetGroupAnimation(g, n, l)
    \/ \E c \in 1 .. MaxCount, g \in ids, n \in Anims \cup {Null}, l \in BOOLEAN :
          CreateInstancedGroup(c, g, n, l)

Next == NextOver(GroupIds)

Spec == Init /\ [][Next]_vars

\* The same program when every caller passes a non-empty group id.
NamedGroupIds == GroupIds \ {""}
NextNamed == NextOver(NamedGroupIds)
SpecNamed == Init /\ [][NextNamed]_vars

\* ------------------------------------------------------------ the scene
\* spine.destroy() emits 'destroyed' to the k subscriptions the pipe held on spine
\* when the emission began; each of them runs destroyRenderable.
RECURSIVE emitDestroyed(_, _, _)
emitDestroyed(R, spine, k) ==
    IF k = 0 THEN R ELSE emitDestroyed(destroyRenderable(R, spine), spine, k - 1)

\* A clearSpines that drops the scene's objects without destroying them.
clearWithoutDestroy(R, ss) == R

\* BenchmarkScene.clearSpines: every object of the scene is destroyed, in order.
RECURSIVE clearSpines(_, _)
clearSpines(R, ss) ==
    IF ss = <<>> THEN R
    ELSE clearSpines(emitDestroyed(R, Head(ss), R.listeners[Head(ss)]), Tail(ss))

\* life and tracks of the objects once the objects in ss are destroyed.
lifeCleared(ss) == [o \in Objs |-> IF InSeq(ss, o) THEN "destroyed" ELSE life[o]]
tracksCleared(ss) == [o \in Objs |-> IF InSeq(ss, o) THEN NoTrack ELSE tracks[o]]
gpuCleared(ss) == [o \in Objs |-> IF InSeq(ss, o) THEN "none" ELSE gpuSpineData[o]]

\* A generateScene that keeps the requested mode also without an instancer.
requestedMode(cfg) == cfg.renderMode

\* generateScene falls back to STANDARD when INSTANCED is asked for without an instancer.
effectiveMode(cfg) ==
    IF cfg.renderMode = "instanced" /\ ~instancer THEN "standard" ELSE cfg.renderMode

\* BenchmarkScene.generateStandardSpines, and createInstancedGroup's loop without the
\* interceptor: every new object gets the animation set on it individually.
standardTracks(T, fresh, animation, loop) ==
    [o \in Objs |-> IF InSeq(fresh, o) /\ Truthy(animation)
                    THEN setAnimation(animation, loop) ELSE T[o]]

\* Assignment of a regenerated scene: registry R, tracks T, objects fresh, config cfg.
SetScene(R, T, fresh, cfg, threw) ==
    /\ SetRegistry(R)
    /\ tracks' = T
    /\ raised' = threw
    /\ spines' = IF threw THEN <<>> ELSE fresh
    /\ life' = [o \in Objs |-> IF InSeq(fresh, o) THEN "live" ELSE lifeCleared(spines)[o]]
    /\ config' = [cfg EXCEPT !.renderMode = effectiveMode(cfg)]

\* BenchmarkScene.generateInstancedSpines with the interceptor present.
SetInstancedScene(X, fresh, cfg) ==
    SetScene([X.reg EXCEPT !.groups = X.anim.groups], X.anim.tracks, fresh, cfg,
             X.anim.raised)

\* BenchmarkScene.generateScene under the configuration cfg.
generateScene(cfg) ==
    /\ spineData => NumCreated + cfg.instanceCount <= NumObjs
    /\ gpuSpineData' = gpuCleared(spines)
    /\ IF ~spineData
       THEN /\ SetRegistry(clearSpines(Registry, spines))
            /\ tracks' = tracksCleared(spines)
            /\ life' = lifeCleared(spines)
            /\ spines' = <<>>
            /\ raised' = FALSE
            /\ config' = cfg
       ELSE IF effectiveMode(cfg) = "instanced" /\ instancePipe
       THEN SetInstancedScene(
                syncCreated(createInstances([reg |-> clearSpines(Registry, spines),
                                             tracks |-> tracksCleared(spines)],
                                            Fresh(cfg.instanceCount), SceneGroupId,
                                            cfg.animation, TRUE),
                            SceneGroupId, cfg.animation),
                Fresh(cfg.instanceCount), cfg)
       ELSE SetScene(clearSpines(Registry, spines),
                     standardTracks(tracksCleared(spines), Fresh(cfg.instanceCount),
                                    cfg.animation, TRUE),
                     Fresh(cfg.instanceCount), cfg, FALSE)
    /\ UNCHANGED <<instancePipe, instancer, spineData>>

\* BenchmarkScene.setSpineData
SetSpineData ==
    /\ SceneStep("setSpineData")
    /\ spineData' = TRUE
    /\ raised' = FALSE
    /\ UNCHANGED <<instancePipe, instanceGroups, instanceGroup, isPrimaryInstance, life,
                   tracks, listeners, instancer, spines, config, gpuSpineData>>

\* BenchmarkScene.generateScene
GenerateScene ==
    /\ SceneStep("generateScene")
    /\ generateScene(config)

\* BenchmarkScene.updateConfig: the partial configuration is merged, then generateScene.
UpdateConfig(count, mode, animation) ==
    /\ SceneStep("updateConfig")
    /\ generateScene([instanceCount |-> count, renderMode |-> mode, animation |-> animation])

\* BenchmarkScene.onResize: the scene is regenerated when it has objects.
OnResize ==
    /\ SceneStep("onResize")
    /\ IF Len(spines) > 0 THEN generateScene(config)
       ELSE /\ raised' = FALSE
            /\ UNCHANGED <<instancePipe, instanceGroups, instanceGroup, isPrimaryInstance,
                           life, tracks, listeners, instancer, spineData, spines, config,
                           gpuSpineData>>

\* BenchmarkScene.update in STANDARD mode: every object of the scene is advanced.
updateEachSpine(ss, deltaTime) ==
    [o \in Objs |-> IF InSeq(ss, o) THEN stateUpdate(tracks[o], deltaTime) ELSE tracks[o]]

\* BenchmarkScene.changeAnimation in STANDARD mode: every object gets the animation.
animateEachSpine(ss, animationName) ==
    [o \in Objs |-> IF InSeq(ss, o) THEN setAnimation(animationName, TRUE) ELSE tracks[o]]

\* BenchmarkScene.update
SceneUpdate(deltaTime) ==
    /\ SceneStep("sceneUpdate")
    /\ IF config.renderMode = "instanced" /\ instancer
       THEN SetAnim(facadeUpdate(AnimState, deltaTime))
       ELSE /\ tracks' = updateEachSpine(spines, deltaTime)
            /\ raised' = FALSE
            /\ UNCHANGED instanceGroups
    /\ UNCHANGED <<instancePipe, instanceGroup, isPrimaryInstance, life, listeners,
                   instancer, spineData, spines, config, gpuSpineData>>

\* The animation changeAnimation settles on: the name if the skeleton has it,
\* otherwise the first available animation.
knownAnimation(animationName) ==
    IF InSeq(AvailableAnims, animationName) THEN animationName ELSE Head(AvailableAnims)

\* BenchmarkScene.changeAnimation
ChangeAnimation(animationName) ==
    /\ SceneStep("changeAnimation")
    /\ config' = [config EXCEPT !.animation = knownAnimation(animationName)]
    /\ IF Len(spines) = 0
       THEN raised' = FALSE /\ UNCHANGED <<instanceGroups, tracks>>
       ELSE IF config.renderMode = "instanced" /\ instancer
       THEN SetAnim(facadeSetGroupAnimation(AnimState, SceneGroupId,
                                            knownAnimation(animationName), TRUE))
       ELSE /\ tracks' = animateEachSpine(spines, knownAnimation(animationName))
            /\ raised' = FALSE
            /\ UNCHANGED instanceGroups
    /\ UNCHANGED <<instancePipe, instanceGroup, isPrimaryInstance, life, listeners,
                   instancer, spineData, spines, gpuSpineData>>

\* BenchmarkScene.getPerformanceData
getPerformanceData ==
    [spineCount |-> Len(spines), renderMode |-> config.renderMode,
     hasDrawCallStats |-> config.renderMode = "instanced" /\ instancer]

RenderModes == {"standard", "instanced"}
RequestedAnims == Anims \cup {"dance"}      \* "dance" is not an animation of the skeleton

\* The program driven through its scene: the operations of BenchmarkScene.
NextScene ==
    \/ SetSpineData
    \/ GenerateScene
    \/ \E c \in 0 .. MaxCount, m \in RenderModes, n \in Anims : UpdateConfig(c, m, n)
    \/ OnResize
    \/ \E d \in 1 .. MaxDelta : SceneUpdate(d)
    \/ \E n \in RequestedAnims : ChangeAnimation(n)

SpecScene == Init /\ [][NextScene]_vars

\* ----------------------------------------------------- render pipeline
\* The renderer has the default spine pipe registered (extensions.add(SpinePipe)),
\* and the skeleton has at least one region or mesh attachment that is rendered.
\* The part of the state the pipeline handlers work on.
Pipeline == [attachmentsDirty |-> spineAttachmentsDirty,
             texturesDirty |-> spineTexturesDirty, gpu |-> gpuSpineData]

\* spine._validateAndTransformAttachments(): it raises the dirty flags when the
\* attachments (a) or the textures (t) of the skeleton have changed.
validateAndTransformAttachments(P, spine, a, t) ==
    [P EXCEPT !.attachmentsDirty[spine] = @ \/ a, !.texturesDirty[spine] = @ \/ t]

\* spine.spineAttachmentsDirty = false; spine.spineTexturesDirty = false
clearDirty(P, spine) ==
    [P EXCEPT !.attachmentsDirty[spine] = FALSE, !.texturesDirty[spine] = FALSE]

\* The outcome of one handler call: the pipeline state, the value returned, whether
\* it threw, and how often the default handler and the original render were called.
Outcome(P, result, threw, delegated, original) ==
    [pipe |-> P, result |-> result, threw |-> threw, delegated |-> delegated,
     original |-> original]

\* SpinePipe.validateRenderable; fits: the batcher can take every changed texture.
\* Without GPU data the texture loop reads a property of undefined and throws.
spinePipeValidateRenderable(P, spine, a, t, fits) ==
    LET P1 == validateAndTransformAttachments(P, spine, a, t)
    IN IF P1.attachmentsDirty[spine] THEN Outcome(P1, TRUE, FALSE, 1, 0)
       ELSE IF P1.texturesDirty[spine]
       THEN IF P1.gpu[spine] = "none" THEN Outcome(P1, FALSE, TRUE, 1, 0)
            ELSE Outcome(P1, ~fits, FALSE, 1, 0)
       ELSE Outcome(P1, FALSE, FALSE, 1, 0)

\* SpinePipe.addRenderable: _getSpineData creates the GPU data when there is none.
spinePipeAddRenderable(P, spine) ==
    Outcome([clearDirty(P, spine) EXCEPT !.gpu[spine] = "data"], FALSE, FALSE, 1, 0)

\* SpinePipe.updateRenderable: the dirty flags are cleared, then the slot loop reads
\* gpuSpine.slotBatches and throws when the pipe holds no GPU data for the object.
spinePipeUpdateRenderable(P, spine) ==
    Outcome(clearDirty(P, spine), FALSE, P.gpu[spine] = "none", 1, 0)

\* The interceptor's test `!spine.instanceGroup || spine.isPrimaryInstance`.
rendersNormally(spine) == ~Truthy(instanceGroup[spine]) \/ isPrimaryInstance[spine]

\* SpineInstancePipe.validateRenderable
validateRenderable(P, spine, a, t, fits) ==
    IF rendersNormally(spine) THEN spinePipeValidateRenderable(P, spine, a, t, fits)
    ELSE Outcome(P, FALSE, FALSE, 0, 0)

\* SpineInstancePipe.addRenderable
addRenderable(P, spine) ==
    IF rendersNormally(spine) THEN spinePipeAddRenderable(P, spine)
    ELSE Outcome(clearDirty(P, spine), FALSE, FALSE, 0, 0)

\* SpineInstancePipe.updateRenderable
updateRenderable(P, spine) ==
    IF rendersNormally(spine) THEN spinePipeUpdateRenderable(P, spine)
    ELSE Outcome(clearDirty(P, spine), FALSE, FALSE, 0, 0)

\* The _render hook installed by createInstancedSpine.
renderHook(P, spine, a, t) ==
    IF ~instancePipe \/ ~Truthy(instanceGroup[spine]) \/ isPrimaryInstance[spine]
    THEN Outcome(P, FALSE, FALSE, 0, 1)
    ELSE Outcome(validateAndTransformAttachments(P, spine, a, t), FALSE, FALSE, 0, 0)

\* Assignment of the outcome of a handler call.
SetOutcome(out) ==
    /\ spineAttachmentsDirty' = out.pipe.attachmentsDirty
    /\ spineTexturesDirty' = out.pipe.texturesDirty
    /\ gpuSpineData' = out.pipe.gpu
    /\ raised' = out.threw
    /\ renderCall' = [result |-> out.result, delegated |-> out.delegated,
                      original |-> out.original]

\* One call of the host pipeline into a handler for the live object o.
HostStep(op, o) ==
    /\ steps < MaxSteps
    /\ life[o] = "live"
    /\ steps' = steps + 1
    /\ lastOp' = [op |-> op, g |-> Null, o |-> o]
    /\ UNCHANGED <<instancePipe, instanceGroups, instanceGroup, isPrimaryInstance, life,
                   tracks, listeners>>
    /\ UNCHANGED sceneVars

\* The host asks whether o, part of its instruction set, forces a rebuild; a true
\* answer makes it discard the instruction set and pass every object again.
ValidateRenderable(o, a, t, fits) ==
    /\ HostStep("validateRenderable", o)
    /\ instancePipe
    /\ InSeq(instructionSet, o)
    /\ SetOutcome(validateRenderable(Pipeline, o, a, t, fits))
    /\ instructionSet' = IF validateRenderable(Pipeline, o, a, t, fits).result
                         THEN <<>> ELSE instructionSet

\* The host passes o to addRenderable while it builds its instruction set.
AddRenderable(o) ==
    /\ HostStep("addRenderable", o)
    /\ instancePipe
    /\ ~InSeq(instructionSet, o)
    /\ SetOutcome(addRenderable(Pipeline, o))
    /\ instructionSet' = Append(instructionSet, o)

\* The host refreshes o, which it passed to addRenderable since its last rebuild.
UpdateRenderable(o) ==
    /\ HostStep("updateRenderable", o)
    /\ instancePipe
    /\ InSeq(instructionSet, o)
    /\ SetOutcome(updateRenderable(Pipeline, o))
    /\ UNCHANGED instructionSet

\* o's render hook runs.
Render(o, a, t) ==
    /\ HostStep("render", o)
    /\ SetOutcome(renderHook(Pipeline, o, a, t))
    /\ UNCHANGED instructionSet

\* The program under the host pipeline: membership operations and handler calls.
NextRender ==
    \/ \E o \in Objs : CreateInstancedSpine(o)
    \/ \E o \in Objs, g \in GroupIds : AddToGroup(o, g)
    \/ \E o \in Objs : RemoveFromGroup(o)
    \/ \E o \in Objs : DestroyRenderable(o)
    \/ \E c \in 1 .. MaxCount, g \in GroupIds : CreateInstancedGroup(c, g, Null, TRUE)
    \/ \E o \in Objs, a, t, fits \in BOOLEAN : ValidateRenderable(o, a, t, fits)
    \/ \E o \in Objs : AddRenderable(o)
    \/ \E o \in Objs : UpdateRenderable(o)
    \/ \E o \in Objs, a, t \in BOOLEAN : Render(o, a, t)

SpecRender == Init /\ [][NextRender]_vars

\* ---------------------------------- the scene variant of unnamed/part_000
VariantInstanceCount == 100
DefaultDelta == 1            \* update()'s default deltaTime of 0.016 s, in ticks

\* The group id built by generateInstancedSpines and by changeAnimation.
variantGroupId(animation) == "benchmark-group-" \o animation

InitVariant ==
    /\ instancePipe \in BOOLEAN
    /\ instanceGroups = <<>>
    /\ instanceGroup = [o \in Objs |-> Null]
    /\ isPrimaryInstance = [o \in Objs |-> FALSE]
    /\ life = [o \in Objs |-> "none"]
    /\ tracks = [o \in Objs |-> NoTrack]
    /\ listeners = [o \in Objs |-> 0]
    /\ raised = FALSE
    /\ lastOp = [op |-> "init", g |-> Null, o |-> NoObj]
    /\ steps = 0
    /\ instancer \in {b \in BOOLEAN : instancePipe => b}
    /\ spineData = FALSE
    /\ spines = <<>>
    /\ config = [instanceCount |-> VariantInstanceCount, renderMode |-> "instanced",
                 animation |-> "idle"]
    /\ spineAttachmentsDirty = [o \in Objs |-> TRUE]
    /\ spineTexturesDirty = [o \in Objs |-> TRUE]
    /\ gpuSpineData = [o \in Objs |-> "none"]
    /\ instructionSet = <<>>
    /\ renderCall = NoCall

\* generateScene of the variant: the group is created under variantGroupId of the
\* configured animation.
generateSceneVariant(cfg) ==
    /\ spineData => NumCreated + cfg.instanceCount <= NumObjs
    /\ gpuSpineData' = gpuCleared(spines)
    /\ IF ~spineData
       THEN /\ SetRegistry(clearSpines(Registry, spines))
            /\ tracks' = tracksCleared(spines)
            /\ life' = lifeCleared(spines)
            /\ spines' = <<>>
            /\ raised' = FALSE
            /\ config' = cfg
       ELSE IF effectiveMode(cfg) = "instanced" /\ instancePipe
       THEN SetInstancedScene(
                syncCreated(createInstances([reg |-> clearSpines(Registry, spines),
                                             tracks |-> tracksCleared(spines)],
                                            Fresh(cfg.instanceCount),
                                            variantGroupId(cfg.animation),
                                            cfg.animation, TRUE),
                            variantGroupId(cfg.animation), cfg.animation),
                Fresh(cfg.instanceCount), cfg)
       ELSE SetScene(clearSpines(Registry, spines),
                     standardTracks(tracksCleared(spines), Fresh(cfg.instanceCount),
                                    cfg.animation, TRUE),
                     Fresh(cfg.instanceCount), cfg, FALSE)
    /\ UNCHANGED <<instancePipe, instancer, spineData>>

GenerateSceneVariant ==
    /\ SceneStep("generateScene")
    /\ generateSceneVariant(config)

UpdateConfigVariant(count, mode, animation) ==
    /\ SceneStep("updateConfig")
    /\ generateSceneVariant([instanceCount |-> count, renderMode |-> mode,
                             animation |-> animation])

OnResizeVariant ==
    /\ SceneStep("onResize")
    /\ IF Len(spines) > 0 THEN generateSceneVariant(config)
       ELSE /\ raised' = FALSE
            /\ UNCHANGED <<instancePipe, instanceGroups, instanceGroup, isPrimaryInstance,
                           life, tracks, listeners, instancer, spineData, spines, config,
                           gpuSpineData>>

\* update() of the variant: the instancer is updated with its default delta; the
\* standard objects are left to their own automatic update.
SceneUpdateVariant ==
    /\ SceneStep("sceneUpdate")
    /\ IF config.renderMode = "instanced" /\ instancer
       THEN SetAnim(facadeUpdate(AnimState, DefaultDelta))
       ELSE /\ raised' = FALSE
            /\ UNCHANGED <<instanceGroups, tracks>>
    /\ UNCHANGED <<instancePipe, instanceGroup, isPrimaryInstance, life, listeners,
                   instancer, spineData, spines, config, gpuSpineData>>

\* changeAnimation of the variant: config.animation is assigned first, and the group
\* id is then built from the new config.animation.
ChangeAnimationVariant(animationName) ==
    /\ SceneStep("changeAnimation")
    /\ config' = [config EXCEPT !.animation = animationName]
    /\ IF Len(spines) = 0
       THEN raised' = FALSE /\ UNCHANGED <<instanceGroups, tracks>>
       ELSE IF config.renderMode = "instanced" /\ instancer
       THEN SetAnim(facadeSetGroupAnimation(AnimState, variantGroupId(animationName),
                                            animationName, TRUE))
       ELSE /\ tracks' = animateEachSpine(spines, animationName)
            /\ raised' = FALSE
            /\ UNCHANGED instanceGroups
    /\ UNCHANGED <<instancePipe, instanceGroup, isPrimaryInstance, life, listeners,
                   instancer, spineData, spines, gpuSpineData>>

NextSceneVariant ==
    \/ SetSpineData
    \/ GenerateSceneVariant
    \/ \E c \in 0 .. MaxCount, m \in RenderModes, n \in Anims : UpdateConfigVariant(c, m, n)
    \/ OnResizeVariant
    \/ SceneUpdateVariant
    \/ \E n \in Anims : ChangeAnimationVariant(n)

SpecSceneVariant == InitVariant /\ [][NextSceneVariant]_vars

\* ================================================================ claims
GroupIxs == 1 .. Len(instanceGroups)
Members(group) == Elems(group.instances)
GroupsOf(o) == {i \in GroupIxs : o \in Members(instanceGroups[i])}
GroupIxs2 == 1 .. Len(instanceGroups')
GroupsOf2(o) == {i \in GroupIxs2 : o \in Members(instanceGroups'[i])}
IsMember(o) == GroupsOf(o) # {}
Flagged(group) == {m \in Members(group) : isPrimaryInstance[m]}
Flagged2(group) == {m \in Members(group) : isPrimaryInstance'[m]}

\* C1: in every reachable state every group has exactly one member whose
\* isPrimaryInstance is true, that member is the group's primaryInstance, and a
\* member is flagged primary iff it is its group's primaryInstance.
C1_PrimaryUniqueness ==
    \A i \in GroupIxs :
        LET group == instanceGroups[i]
        IN /\ Cardinality(Flagged(group)) = 1
           /\ \A m \in Members(group) :
                 isPrimaryInstance[m] <=> (m = group.primaryInstance)

\* C2: in every reachable state each group's primaryInstance is a current member
\* of the group (never an unregistered or destroyed object), and is null only
\* when the member set is empty.
C2_PrimaryIsMember ==
    \A i \in GroupIxs :
        LET group == instanceGroups[i]
        IN IF group.primaryInstance = NoObj
           THEN group.instances = <<>>
           ELSE /\ group.primaryInstance \in Members(group)
                /\ life[group.primaryInstance] = "live"

\* C3: a second registerInstance(o, g) right after registerInstance(o, g) leaves
\* the registry and o's instanceGroup / isPrimaryInstance as the first call left them.
C3_RegisterIdempotent ==
    [][\A o \in Objs, g \in GroupIds :
          (instancePipe /\ lastOp = [op |-> "addToGroup", g |-> g, o |-> o]
              /\ AddToGroup(o, g))
          => UNCHANGED <<instanceGroups, instanceGroup, isPrimaryInstance>>]_vars

\* P is the primary of the group at index i, which has at least two members.
PrimaryOfLargeGroup(P, i) ==
    /\ instanceGroups[i].primaryInstance = P
    /\ P \in Members(instanceGroups[i])
    /\ isPrimaryInstance[P]
    /\ Len(instanceGroups[i].instances) >= 2

\* C4: when the primary P of a group with at least two members is removed by
\* unregisterInstance(P) or by P's destroy notification, the group remains, P is
\* no longer a member, and exactly one remaining member is flagged primary and is
\* the group's primaryInstance.
C4_PromotionOnRemoval ==
    [][\A P \in Objs : \A i \in GroupIxs :
          (instancePipe /\ PrimaryOfLargeGroup(P, i)
              /\ (RemoveFromGroup(P) \/ DestroyRenderable(P)))
          => /\ MapHas(instanceGroups', instanceGroups[i].id)
             /\ LET after == MapGet(instanceGroups', instanceGroups[i].id)
                IN /\ P \notin Members(after)
                   /\ Flagged2(after) = {after.primaryInstance}]_vars

\* C5: no group ever has an empty member set, and unregistering or destroying the
\* last member of a group removes the group (getGroupInfo(id) is then null).
C5_NoEmptyGroup ==
    [][/\ \A i \in GroupIxs2 : instanceGroups'[i].instances # <<>>
       /\ \A o \in Objs : \A i \in GroupIxs :
             (instancePipe /\ instanceGroups[i].instances = <<o>>
                 /\ (RemoveFromGroup(o) \/ DestroyRenderable(o)))
             => pipeGetGroupInfo(instanceGroups', instanceGroups[i].id) = NoInfo]_vars

\* C6: an object is in at most one group's member set at any time, and
\* registerInstance(o, B) for o in group A # B removes o from A (promoting a new
\* primary if o was A's primary, deleting A if it became empty) and adds o to B.
C6_SingleGroupMembership ==
    [][/\ \A o \in Objs : Cardinality(GroupsOf2(o)) <= 1
       /\ \A o \in Objs, B \in GroupIds : \A i \in GroupIxs :
             LET A == instanceGroups[i]
             IN (instancePipe /\ o \in Members(A) /\ A.id # B /\ AddToGroup(o, B))
                => /\ MapHas(instanceGroups', B)
                   /\ o \in Members(MapGet(instanceGroups', B))
                   /\ IF A.instances = <<o>>
                      THEN ~MapHas(instanceGroups', A.id)
                      ELSE /\ MapHas(instanceGroups', A.id)
                           /\ LET A2 == MapGet(instanceGroups', A.id)
                              IN /\ Members(A2) = Members(A) \ {o}
                                 /\ (A.primaryInstance = o
                                       => /\ A2.primaryInstance \in Members(A2)
                                          /\ isPrimaryInstance'[A2.primaryInstance])]_vars

\* C7: after unregisterInstance(o) on a group member, and equally after o's
\* destroy notification, o is unmanaged: instanceGroup null, isPrimaryInstance
\* false, member of no group.
C7_UnmanagedAfterRemoval ==
    [][\A o \in Objs :
          (instancePipe /\ IsMember(o) /\ (RemoveFromGroup(o) \/ DestroyRenderable(o)))
          => /\ instanceGroup'[o] = Null
             /\ ~isPrimaryInstance'[o]
             /\ GroupsOf2(o) = {}]_vars

\* C8: handling the destroy notification of an already destroyed object again (or
\* unregistering an already destroyed object) leaves the registry as it was: same
\* groups, member sets, primaryInstance, and isPrimaryInstance of every member.
C8_DoubleDestroyIdempotent ==
    [][\A o \in Objs :
          (instancePipe /\ life[o] = "destroyed"
              /\ (DestroyRenderable(o) \/ RemoveFromGroup(o)))
          => /\ instanceGroups' = instanceGroups
             /\ \A m \in Objs : IsMember(m) => isPrimaryInstance'[m] = isPrimaryInstance[m]]_vars

\* C9: without an interceptor every facade group operation completes as a no-op
\* without raising, and the reporting getters return the zero / 0 / null defaults.
C9_NoPipeNoOp ==
    ~instancePipe =>
        /\ ~raised
        /\ instanceGroups = <<>>
        /\ \A o \in Objs : instanceGroup[o] = Null /\ ~isPrimaryInstance[o]
        /\ getTotalInstances = 0
        /\ getDrawCallStats.instanced = 0 /\ getDrawCallStats.standard = 0
        /\ getDrawCallStats.saved = 0 /\ getDrawCallStats.reduction = Quotient(0, 1)
        /\ \A g \in GroupIds : getGroupInfo(g) = NoInfo

\* Group g exists and records an animation given by the last operation.
GivenAnimation(g) ==
    /\ lastOp.op \in {"setGroupAnimation", "createInstancedGroup"}
    /\ lastOp.g = g
    /\ ~raised
    /\ MapHas(instanceGroups, g)
    /\ MapGet(instanceGroups, g).animation # Null

\* C10: after a group has been given an animation and update(dt) is then called,
\* getGroupInfo(g) reports the primary's track time and animation name, and every
\* secondary member has the primary's animation name and track time.
C10_UpdateMirrorsPrimary ==
    [][\A g \in GroupIds, d \in 1 .. MaxDelta :
          (instancePipe /\ GivenAnimation(g) /\ Update(d))
          => /\ ~raised'
             /\ LET group == MapGet(instanceGroups', g)
                    info == pipeGetGroupInfo(instanceGroups', g)
                    primary == tracks'[group.primaryInstance]
                IN /\ info.animationTime = primary.trackTime
                   /\ info.currentAnimation = primary.animation
                   /\ \A m \in Members(group) \ {group.primaryInstance} :
                         /\ tracks'[m].animation = primary.animation
                         /\ tracks'[m].trackTime = primary.trackTime]_vars

\* The registry of one group of n members whose first member is the primary.
SingleGroup(n) == <<[id |-> "a", instances |-> [k \in 1 .. n |-> k],
                     primaryInstance |-> 1, animation |-> Null, time |-> 0]>>

\* C11: getDrawCallStats returns instanced = 5 x (groups with a primary),
\* standard = 5 x getTotalInstances() with getTotalInstances() the sum of the member
\* counts, saved = standard - instanced and reduction = saved / standard x 100
\* (0 when standard is 0); one group of 40 members gives 5, 200, 195, 97.5.
C11_DrawCallStats ==
    instancePipe =>
        LET s == getDrawCallStats
            withPrimary == {i \in GroupIxs : instanceGroups[i].primaryInstance # NoObj}
            memberships == {<<i, m>> \in GroupIxs \X Objs : m \in Members(instanceGroups[i])}
            one == pipeGetDrawCallStats(SingleGroup(40))
        IN /\ s.instanced = 5 * Cardinality(withPrimary)
           /\ getTotalInstances = Cardinality(memberships)
           /\ s.standard = 5 * getTotalInstances
           /\ s.saved = s.standard - s.instanced
           /\ IF s.standard = 0 THEN s.reduction = [num |-> 0, den |-> 1]
              ELSE s.reduction.num * s.standard = s.saved * 100 * s.reduction.den
           /\ one.instanced = 5 /\ one.standard = 200 /\ one.saved = 195
           /\ one.reduction = [num |-> 195, den |-> 2]

\* A registry where instancing saves draw calls: a group of two or more members.
C11_Witness ==
    /\ instancePipe
    /\ \E i \in GroupIxs : Len(instanceGroups[i].instances) >= 2
    /\ getDrawCallStats.saved > 0

\* C12: createInstancedGroup(options, count, g, animation, loop) with the
\* interceptor present and g not yet in the registry creates exactly count objects,
\* all members of g; exactly one of them, the first created, is primary; the facade
\* sets the animation only on that primary; and after the one syncGroup every
\* member has the primary's active animation and track time.
C12_CreateInstancedGroup ==
    [][\A c \in 1 .. MaxCount, g \in GroupIds, n \in Anims \cup {Null}, l \in BOOLEAN :
          (instancePipe /\ ~MapHas(instanceGroups, g) /\ CreateInstancedGroup(c, g, n, l))
          => LET fresh == Fresh(c)
                 first == fresh[1]
                 loopEnd == createInstances([reg |-> Registry, tracks |-> tracks],
                                            fresh, g, n, l)
             IN /\ MapHas(instanceGroups', g)
                /\ MapGet(instanceGroups', g).instances = fresh
                /\ Len(fresh) = c
                /\ \A m \in Elems(fresh) : life'[m] = "live" /\ GroupsOf2(m) # {}
                /\ MapGet(instanceGroups', g).primaryInstance = first
                /\ {m \in Elems(fresh) : isPrimaryInstance'[m]} = {first}
                /\ Truthy(n) =>
                      /\ loopEnd.tracks[first] = setAnimation(n, l)
                      /\ \A m \in Elems(fresh) \ {first} : loopEnd.tracks[m] = tracks[m]
                      /\ ~raised'
                      /\ tracks'[first].animation = n
                      /\ \A m \in Elems(fresh) :
                            /\ tracks'[m].animation = tracks'[first].animation
                            /\ tracks'[m].trackTime = tracks'[first].trackTime]_vars

\* A new group of two or more objects has just been created with an animation.
C12_Witness ==
    /\ instancePipe /\ steps = 1 /\ lastOp.op = "createInstancedGroup"
    /\ MapHas(instanceGroups, lastOp.g)
    /\ Len(MapGet(instanceGroups, lastOp.g).instances) >= 2
    /\ \A m \in Members(MapGet(instanceGroups, lastOp.g)) : tracks[m].animation \in Anims

\* C13: createInstancedGroup without the interceptor leaves the registry untouched
\* and creates exactly count standard objects, none of which has a group, each
\* with the requested animation set on it individually when one is given.
C13_CreateStandardFallback ==
    [][\A c \in 1 .. MaxCount, g \in GroupIds, n \in Anims \cup {Null}, l \in BOOLEAN :
          (~instancePipe /\ CreateInstancedGroup(c, g, n, l))
          => LET created == {o \in Objs : life[o] = "none" /\ life'[o] = "live"}
             IN /\ UNCHANGED <<instanceGroups, instanceGroup, isPrimaryInstance, listeners>>
                /\ ~raised'
                /\ Cardinality(created) = c
                /\ \A o \in Objs \ created : life'[o] = life[o] /\ tracks'[o] = tracks[o]
                /\ \A m \in created :
                      /\ instanceGroup'[m] = Null /\ ~isPrimaryInstance'[m]
                      /\ GroupsOf2(m) = {}
                      /\ tracks'[m] = IF n \in Anims
                                      THEN [animation |-> n, trackTime |-> 0, loop |-> l]
                                      ELSE NoTrack]_vars

\* Without the interceptor two standard objects were created with an animation
\* that does not loop.
C13_Witness ==
    /\ ~instancePipe /\ lastOp.op = "createInstancedGroup"
    /\ \E m1, m2 \in Objs :
          /\ m1 # m2 /\ life[m1] = "live" /\ life[m2] = "live"
          /\ tracks[m1].animation \in Anims /\ ~tracks[m1].loop
          /\ tracks[m2] = tracks[m1]

\* C14: after setGroupAnimation(g, name, loop) on an existing group with a primary
\* the group records animation name at time 0, and the primary and every
\* secondary have name as active animation at track time 0 with the given loop flag.
C14_SetGroupAnimation ==
    [][\A g \in GroupIds, n \in Anims, l \in BOOLEAN :
          (instancePipe /\ MapHas(instanceGroups, g)
              /\ MapGet(instanceGroups, g).primaryInstance # NoObj
              /\ SetGroupAnimation(g, n, l))
          => /\ ~raised'
             /\ MapHas(instanceGroups', g)
             /\ LET group == MapGet(instanceGroups', g)
                IN /\ group.animation = n /\ group.time = 0
                   /\ \A m \in Members(group) \cup {group.primaryInstance} :
                         tracks'[m] = [animation |-> n, trackTime |-> 0, loop |-> l]]_vars

\* The animation name and track time of every object in the tracks T.
NameAndTime(T) == [o \in Objs |-> <<T[o].animation, T[o].trackTime>>]

\* C15: SpineInstancePipe.syncGroup(g) called twice in succession with nothing in
\* between leaves the group's recorded animation and time and every secondary's
\* animation name and track time after the second call as after the first.
C15_PipeSyncIdempotent ==
    instancePipe =>
        \A g \in GroupIds :
            LET once == pipeSyncGroup(AnimState, g)
                twice == pipeSyncGroup([once EXCEPT !.raised = FALSE], g)
            IN /\ twice.groups = once.groups
               /\ NameAndTime(twice.tracks) = NameAndTime(once.tracks)
               /\ twice.raised = once.raised

\* A group whose secondary is out of step with the primary: the first sync
\* changes the secondary's track.
C15_Witness ==
    /\ instancePipe
    /\ \E g \in GroupIds :
          /\ MapHas(instanceGroups, g)
          /\ Len(MapGet(instanceGroups, g).instances) >= 2
          /\ tracks[MapGet(instanceGroups, g).primaryInstance].trackTime > 0
          /\ ~pipeSyncGroup(AnimState, g).raised
          /\ NameAndTime(pipeSyncGroup(AnimState, g).tracks) # NameAndTime(tracks)

\* C16: with the interceptor present, syncGroup(id) and setGroupAnimation(id, ...)
\* for an id absent from the registry, and unregisterInstance(o) for an object with
\* no group, raise nothing and leave the registry and every object unchanged;
\* getGroupInfo of an absent id is null and getAllGroups of an empty registry is empty.
C16_NoTargetNoOp ==
    [][instancePipe =>
        /\ \A g \in GroupIds :
              (~MapHas(instanceGroups, g)
                  /\ (SyncGroup(g) \/ \E n \in Anims, l \in BOOLEAN : SetGroupAnimation(g, n, l)))
              => /\ ~raised'
                 /\ UNCHANGED <<instanceGroups, instanceGroup, isPrimaryInstance,
                                life, tracks, listeners>>
        /\ \A o \in Objs :
              (instanceGroup[o] = Null /\ RemoveFromGroup(o))
              => /\ ~raised'
                 /\ UNCHANGED <<instanceGroups, instanceGroup, isPrimaryInstance,
                                life, tracks, listeners>>
        /\ \A g \in GroupIds :
              ~MapHas(instanceGroups', g) => pipeGetGroupInfo(instanceGroups', g) = NoInfo
        /\ instanceGroups' = <<>> => pipeGetAllGroups(instanceGroups') = <<>>]_vars

\* syncGroup or setGroupAnimation has just been called with an id absent from a
\* registry that holds another group.
C16_Witness ==
    /\ instancePipe /\ lastOp.op \in {"syncGroup", "setGroupAnimation"}
    /\ ~MapHas(instanceGroups, lastOp.g)
    /\ instanceGroups # <<>>
    /\ ~raised

\* A step that regenerates the scene.
Regenerates ==
    \/ GenerateScene
    \/ Len(spines) > 0 /\ OnResize
    \/ \E c \in 0 .. MaxCount, m \in RenderModes, n \in Anims : UpdateConfig(c, m, n)

\* C17: when generateScene / updateConfig completes (spine data set, interceptor
\* present) every object of the previous scene is destroyed and out of the
\* registry, getTotalInstances() is config.instanceCount in INSTANCED mode and 0 in
\* STANDARD mode, and getPerformanceData().spineCount is config.instanceCount.
C17_SceneMatchesRegistry ==
    [][(instancePipe /\ spineData /\ Regenerates)
        => /\ ~raised'
           /\ \A o \in Elems(spines) : life'[o] = "destroyed" /\ GroupsOf2(o) = {}
           /\ pipeGetTotalInstances(instanceGroups') =
                 IF config'.renderMode = "instanced" THEN config'.instanceCount ELSE 0
           /\ getPerformanceData'.spineCount = config'.instanceCount
           /\ \A o \in Elems(spines') : life'[o] = "live"]_vars

\* An INSTANCED scene that replaced the objects of an earlier INSTANCED scene.
C17_Witness ==
    /\ instancePipe /\ spineData
    /\ lastOp.op \in {"generateScene", "updateConfig", "onResize"}
    /\ config.renderMode = "instanced"
    /\ Len(spines) >= 1
    /\ \E o \in Objs : life[o] = "destroyed" /\ instanceGroup[o] = SceneGroupId

\* C18: within one update(dt) the primary of each group is advanced before the
\* group's secondaries are assigned, so after the call every secondary holds the
\* primary's post-advance track time and not its pre-advance one.
C18_PrimaryAdvancedBeforeSync ==
    [][\A d \in 1 .. MaxDelta :
          (instancePipe /\ Update(d) /\ ~raised')
          => \A i \in GroupIxs :
                LET group == instanceGroups[i]
                    primary == group.primaryInstance
                IN (primary # NoObj /\ tracks[primary] # NoTrack)
                   => \A m \in Members(group) \ {primary} :
                         /\ tracks'[m].trackTime = tracks'[primary].trackTime
                         /\ tracks'[m].trackTime # tracks[primary].trackTime]_vars

\* C19: when syncGroup runs as part of update() and a secondary's active animation
\* already equals the group's animation, the secondary's track is not replaced
\* (no setAnimation): only its track time is overwritten.
C19_NoRestartOnUpdate ==
    [][\A d \in 1 .. MaxDelta :
          (instancePipe /\ Update(d) /\ ~raised')
          => \A i \in GroupIxs :
                LET group == instanceGroups[i]
                    primary == group.primaryInstance
                IN (primary # NoObj /\ tracks[primary] # NoTrack)
                   => \A m \in Members(group) \ {primary} :
                         (tracks[m] # NoTrack
                             /\ tracks[m].animation = tracks[primary].animation)
                         => tracks'[m] = [tracks[m] EXCEPT
                                            !.trackTime = tracks'[m].trackTime]]_vars

\* C20: the facade's syncGroup only reads the primary: a call leaves the primary's
\* track time as it was, and a second call right after the first leaves the group's
\* recorded time and every member's track time unchanged.
C20_FacadeSyncReadsOnly ==
    [][\A g \in GroupIds :
          (instancePipe /\ MapHas(instanceGroups, g) /\ SyncGroup(g) /\ ~raised')
          => LET group == MapGet(instanceGroups, g)
             IN /\ group.primaryInstance # NoObj
                   => tracks'[group.primaryInstance] = tracks[group.primaryInstance]
                /\ lastOp = [op |-> "syncGroup", g |-> g, o |-> NoObj]
                   => /\ MapGet(instanceGroups', g).time = group.time
                      /\ \A m \in Members(group) :
                            tracks'[m].trackTime = tracks[m].trackTime]_vars

\* C21: in one update(dt) every group present at the start of the call is
\* processed exactly once: its primary's animation state is advanced exactly once
\* by dt, and no secondary is advanced: a secondary only receives the primary's
\* animation name and track time (or is left alone when the primary plays nothing).
C21_EachGroupOnce ==
    [][\A d \in 1 .. MaxDelta :
          (instancePipe /\ Update(d) /\ ~raised')
          => \A i \in GroupIxs :
                LET group == instanceGroups[i]
                    primary == group.primaryInstance
                IN primary # NoObj
                   => /\ tracks'[primary] = stateUpdate(tracks[primary], d)
                      /\ \A m \in Members(group) \ {primary} :
                            IF tracks[primary] = NoTrack
                            THEN tracks'[m] = tracks[m]
                            ELSE /\ tracks'[m].animation = tracks[primary].animation
                                 /\ tracks'[m].trackTime = tracks[primary].trackTime + d]_vars

\* C22: across any single operation a member flagged primary stays flagged while
\* it remains a member of the same group (no demotion), and a group's
\* primaryInstance changes to a different object only in a step that removes the
\* previous primary from the group's member set.
C22_NoDemotion ==
    [][\A i \in GroupIxs :
          LET group == instanceGroups[i]
          IN MapHas(instanceGroups', group.id)
             => LET after == MapGet(instanceGroups', group.id)
                IN /\ \A o \in Members(group) \cap Members(after) :
                         isPrimaryInstance[o] => isPrimaryInstance'[o]
                   /\ after.primaryInstance # group.primaryInstance
                         => /\ group.primaryInstance \in Members(group)
                            /\ group.primaryInstance \notin Members(after)]_vars

\* o has a group and is not primary, by its own fields.
IsSecondary(o) == instanceGroup[o] # Null /\ ~isPrimaryInstance[o]

\* C23: validateRenderable returns false for every object that has a group and is
\* not primary, whatever its dirty flags, and for an object with no group or that
\* is primary it returns exactly the default handler's validateRenderable result.
C23_SecondaryNeverRebuilds ==
    [][\A o \in Objs, a, t, fits \in BOOLEAN :
          ValidateRenderable(o, a, t, fits)
          => IF IsSecondary(o)
             THEN ~renderCall'.result /\ ~raised'
             ELSE /\ renderCall'.result =
                        spinePipeValidateRenderable(Pipeline, o, a, t, fits).result
                  /\ raised' = spinePipeValidateRenderable(Pipeline, o, a, t, fits).threw]_vars

\* C24: addRenderable and updateRenderable never invoke the default handler for a
\* secondary member: they emit nothing into the batch and leave both dirty flags
\* false; for an object with no group or that is primary they delegate exactly
\* once to the default handler's corresponding operation.
C24_SecondaryNeverBatched ==
    [][\A o \in Objs :
          (AddRenderable(o) \/ UpdateRenderable(o))
          => IF IsSecondary(o)
             THEN /\ renderCall'.delegated = 0
                  /\ gpuSpineData' = gpuSpineData
                  /\ ~spineAttachmentsDirty'[o] /\ ~spineTexturesDirty'[o]
                  /\ ~raised'
             ELSE renderCall'.delegated = 1]_vars

\* C25: the render hook calls the saved original render if and only if there is
\* no instance pipe, or the object has no group, or the object is primary;
\* otherwise it never calls the original render, so an object whose group is null
\* renders as the undecorated object and a secondary is never rendered twice.
C25_RenderHook ==
    [][\A o \in Objs, a, t \in BOOLEAN :
          Render(o, a, t)
          => /\ renderCall'.original =
                   IF ~instancePipe \/ instanceGroup[o] = Null \/ isPrimaryInstance[o]
                   THEN 1 ELSE 0
             /\ instanceGroup[o] = Null
                   => /\ renderCall'.original = 1
                      /\ UNCHANGED <<spineAttachmentsDirty, spineTexturesDirty,
                                     gpuSpineData>>
             /\ (instancePipe /\ IsSecondary(o)) => renderCall'.original = 0]_vars

\* A step of one of the operations that change animation state.
AnimationStep ==
    \/ \E g \in GroupIds : SyncGroup(g)
    \/ \E d \in 1 .. MaxDelta : Update(d)
    \/ \E g \in GroupIds, n \in Anims, l \in BOOLEAN : SetGroupAnimation(g, n, l)

\* C26: setGroupAnimation, syncGroup and update change animation state only: every
\* group's member set and primaryInstance and every object's instanceGroup and
\* isPrimaryInstance stay as they were, so getDrawCallStats returns the same values
\* right before and right after them (one group of 40 members: 1 x 5 and 40 x 5).
C26_AnimationOnly ==
    [][AnimationStep
        => /\ UNCHANGED <<instanceGroup, isPrimaryInstance>>
           /\ Len(instanceGroups') = Len(instanceGroups)
           /\ \A i \in GroupIxs :
                 /\ instanceGroups'[i].id = instanceGroups[i].id
                 /\ instanceGroups'[i].instances = instanceGroups[i].instances
                 /\ instanceGroups'[i].primaryInstance = instanceGroups[i].primaryInstance
           /\ getDrawCallStats' = getDrawCallStats
           /\ getTotalInstances' = getTotalInstances
           /\ LET one == pipeGetDrawCallStats([SingleGroup(40) EXCEPT
                                                  ![1].animation = "run", ![1].time = 0])
              IN one.instanced = 1 * 5 /\ one.standard = 40 * 5]_vars

\* An animation operation has just changed the tracks of a group of two or more
\* members that saves draw calls.
C26_Witness ==
    /\ instancePipe /\ ~raised
    /\ lastOp.op \in {"setGroupAnimation", "syncGroup", "update"}
    /\ \E i \in GroupIxs :
          /\ Len(instanceGroups[i].instances) >= 2
          /\ instanceGroups[i].animation \in Anims
          /\ \A m \in Members(instanceGroups[i]) : tracks[m].animation \in Anims
    /\ getDrawCallStats.saved > 0

\* What changeAnimation(n) is to leave behind.
ChangedAnimation(n) ==
    /\ InSeq(AvailableAnims, config'.animation)
    /\ config'.animation = IF InSeq(AvailableAnims, n) THEN n ELSE AvailableAnims[1]
    /\ UNCHANGED <<spines, life, instanceGroup, isPrimaryInstance>>
    /\ Len(instanceGroups') = Len(instanceGroups)
    /\ \A i \in GroupIxs :
          /\ instanceGroups'[i].id = instanceGroups[i].id
          /\ instanceGroups'[i].instances = instanceGroups[i].instances
          /\ instanceGroups'[i].primaryInstance = instanceGroups[i].primaryInstance
    /\ (config.renderMode = "instanced" /\ Len(spines) > 0)
          => /\ ~raised'
             /\ MapHas(instanceGroups', SceneGroupId)
             /\ MapGet(instanceGroups', SceneGroupId).animation = config'.animation

\* C27: after changeAnimation(name) config.animation is a known animation (name
\* itself if known, otherwise the first available one), the scene's objects and the
\* registry membership are unchanged (no regeneration), and in INSTANCED mode with a
\* non-empty scene the group 'benchmark-group' records that animation.
C27_ChangeAnimation ==
    [][\A n \in RequestedAnims : ChangeAnimation(n) => ChangedAnimation(n)]_vars

\* C28: right after update(dt) returns, every group's recorded currentAnimation and
\* animationTime equal the active animation name and track time of the group's
\* current primary, also when the previous primary was removed and the promoted
\* member was added with addToGroup and has never been synced.
C28_RecordFollowsPrimary ==
    [][\A d \in 1 .. MaxDelta :
          (instancePipe /\ Update(d) /\ ~raised')
          => \A i \in GroupIxs2 :
                LET info == InfoOf(instanceGroups'[i])
                IN info.primaryInstance # NoObj
                   => /\ info.currentAnimation = tracks'[info.primaryInstance].animation
                      /\ info.animationTime = tracks'[info.primaryInstance].trackTime]_vars

\* C29: the host calls updateRenderable(o) only for objects it passed to
\* addRenderable since its last rebuild, and rebuilds only when validateRenderable
\* returned true; whenever updateRenderable then delegates to the default
\* SpinePipe.updateRenderable(o), the default pipe holds GPU batch data for o, also
\* for a secondary promoted to primary or unregistered since the last rebuild.
C29_GpuDataWhenDelegated ==
    [][\A o \in Objs :
          (UpdateRenderable(o) /\ renderCall'.delegated = 1)
          => gpuSpineData[o] = "data" /\ ~raised']_vars

\* C30: for every string groupId, the empty string included, registerInstance(o,
\* groupId) makes o a managed member (the interceptor treats it as primary or as
\* secondary, never as an object without a group); a following unregisterInstance(o)
\* or destroy of o removes o from that group's member set and leaves o in no group;
\* and registering o under another id never leaves o in two groups.
C30_EveryGroupIdManaged ==
    [][/\ \A o \in Objs, g \in GroupIds :
             (instancePipe /\ AddToGroup(o, g))
             => /\ MapHas(instanceGroups', g)
                /\ o \in Members(MapGet(instanceGroups', g))
                /\ rendersNormally(o)' => isPrimaryInstance'[o]
                /\ GroupsOf2(o) = {MapIndex(instanceGroups', g)}
       /\ \A o \in Objs :
             (instancePipe /\ IsMember(o) /\ (RemoveFromGroup(o) \/ DestroyRenderable(o)))
             => GroupsOf2(o) = {}]_vars

\* C31: after createInstancedGroup(options, count >= 1, g, animation) returns with
\* the interceptor present, group g records the requested animation and every
\* member of g plays it, also when g existed before the call with a primary that
\* plays a different animation.
C31_CreateIntoExistingGroup ==
    [][\A c \in 1 .. MaxCount, g \in GroupIds, n \in Anims, l \in BOOLEAN :
          (instancePipe /\ CreateInstancedGroup(c, g, n, l))
          => /\ ~raised'
             /\ MapHas(instanceGroups', g)
             /\ MapGet(instanceGroups', g).animation = n
             /\ \A m \in Members(MapGet(instanceGroups', g)) : tracks'[m].animation = n]_vars

\* C32: in every reachable state getDrawCallStats() satisfies
\* 0 <= instanced <= standard, saved >= 0 and 0 <= reduction <= 100, because the
\* groups with a primary are never more than the members in total.
C32_StatsInRange ==
    LET s == getDrawCallStats
        withPrimary == {i \in GroupIxs : instanceGroups[i].primaryInstance # NoObj}
    IN /\ 0 <= s.instanced /\ s.instanced <= s.standard
       /\ s.saved >= 0
       /\ s.reduction.den > 0
       /\ 0 <= s.reduction.num /\ s.reduction.num <= 100 * s.reduction.den
       /\ instancePipe => Cardinality(withPrimary) <= getTotalInstances

\* A member has just been removed from a registry that still holds a group.
C32_Witness ==
    /\ instancePipe
    /\ lastOp.op \in {"removeFromGroup", "destroyRenderable"}
    /\ ~IsMember(lastOp.o)
    /\ Len(instanceGroups) < NumCreated
    /\ getDrawCallStats.standard > 0

\* A step that regenerates the scene with INSTANCED as the requested mode.
RegeneratesInstanced ==
    \/ config.renderMode = "instanced" /\ GenerateScene
    \/ config.renderMode = "instanced" /\ Len(spines) > 0 /\ OnResize
    \/ \E c \in 0 .. MaxCount, n \in Anims : UpdateConfig(c, "instanced", n)

\* The scene after the fallback: STANDARD mode, config.instanceCount new unmanaged
\* objects, and performance data without draw call statistics.
FellBack ==
    /\ config'.renderMode = "standard"
    /\ Len(spines') = config'.instanceCount
    /\ \A o \in Elems(spines') :
          /\ life'[o] = "live" /\ o \notin Elems(spines)
          /\ instanceGroup'[o] = Null /\ ~isPrimaryInstance'[o]
          /\ GroupsOf2(o) = {}
    /\ ~getPerformanceData'.hasDrawCallStats

\* Without an instancer a STANDARD scene stays STANDARD in every step but updateConfig.
StaysStandard ==
    (~instancer /\ config.renderMode = "standard" /\ lastOp'.op # "updateConfig")
    => /\ config'.renderMode = "standard"
       /\ ~getPerformanceData'.hasDrawCallStats

\* C33 as stated: generateScene() in INSTANCED mode with a null instancer sets
\* config.renderMode to STANDARD and creates exactly config.instanceCount standard
\* objects; the mode stays STANDARD on later regenerations until updateConfig sets
\* it again, and getPerformanceData() then carries no drawCallStats.
C33_AsStated ==
    [][/\ (~instancer /\ RegeneratesInstanced) => FellBack
       /\ StaysStandard]_vars

\* C33, amended: the same for a generateScene() that is called once the spine data
\* has been set; without spine data generateScene returns before the fallback.
C33_NullInstancerFallback ==
    [][/\ (~instancer /\ spineData /\ RegeneratesInstanced) => FellBack
       /\ StaysStandard]_vars

\* Without an instancer a scene of two objects has replaced an earlier scene and
\* is in STANDARD mode.
C33_Witness ==
    /\ ~instancer /\ spineData
    /\ lastOp.op \in {"generateScene", "updateConfig", "onResize"}
    /\ config.renderMode = "standard"
    /\ Len(spines) >= 1
    /\ \E o \in Objs : life[o] = "destroyed"

\* C34: in the scene variant, after changeAnimation(name) in INSTANCED mode with a
\* non-empty scene, the instance group created by generateInstancedSpines (the
\* group of the scene's objects) records name as its animation and all its members
\* play name: changeAnimation passes the id under which the group was created.
C34_VariantChangeAnimation ==
    [][\A n \in Anims :
          (instancePipe /\ config.renderMode = "instanced" /\ Len(spines) > 0
              /\ ChangeAnimationVariant(n))
          => /\ ~raised'
             /\ \E i \in GroupIxs2 :
                   /\ Elems(spines) \subseteq Members(instanceGroups'[i])
                   /\ instanceGroups'[i].animation = n
                   /\ \A m \in Members(instanceGroups'[i]) : tracks'[m].animation = n
             /\ \A i \in GroupIxs :
                   Elems(spines) \subseteq Members(instanceGroups[i])
                   => instanceGroups[i].id = variantGroupId(n)]_vars

\* C35: for every object the interceptor holds one 'destroyed' subscription while
\* the object is a group member and none otherwise, so that one destroy of the
\* object runs destroyRenderable for it at most once (once per subscription held),
\* whatever registrations and unregistrations came before.
C35_OneSubscription ==
    \A o \in Objs :
        /\ listeners[o] = IF IsMember(o) THEN 1 ELSE 0
        /\ listeners[o] <= 1
====
